---- MODULE Spec2Model ----
(***************************************************************************)
(* Server actions of the GearGo car marketplace:                           *)
(*   src/unnamed/part_001  car listing, wishlist toggle, car details       *)
(*   src/actions/admin.js  admin actions (envelope {success, data, error}) *)
(*   src/unnamed/part_000  admin actions, older variant (requireAdmin      *)
(*                         throws, envelope {success, error})              *)
(* Every server action is an async function: it runs from one awaited      *)
(* store / identity call to the next, so a step of the model is one such   *)
(* call together with the synchronous code that follows it.                *)
(***************************************************************************)
EXTENDS Integers, Sequences, FiniteSets, TLC

VARIABLES
  pc,          \* pc[p]    : the awaited call request p is suspended at, "done" once
               \*            it returned, "idle" before the next invocation
  call,        \* call[p]  : the server action p runs and its arguments
  loc,         \* loc[p]   : the local variables of that invocation
  res,         \* res[p]   : the value the last invocation of p returned
  threw,       \* threw[p] : the store or the identity provider failed a call of the
               \*            invocation (an outage, not a rejected request)
  touched,     \* touched[p] : the invocation read or wrote a table other than User
  savedCars,   \* the UserSavedCar table, a list of rows
  bookings,    \* the TestDriveBooking table: id -> row
  cars,        \* the Car table: id -> row
  variant,     \* which of the two admin modules is deployed
  log          \* the last (at most two) invocations of a caller that runs them one
               \* after the other, each with the table it left

vars == <<pc, call, loc, res, threw, touched, savedCars, bookings, cars, variant, log>>

----------------------------------------------------------------------------
(* Bounds *)
NProcs == 2          \* requests in flight at once
MaxSearchLen == 2    \* length of a search text
MaxBookings == 3     \* bookings on the dashboard
MaxCars == 3         \* cars in the listing

Procs == 1..NProcs

----------------------------------------------------------------------------
(* Identity: auth() of Clerk and the User table *)

Null == [null |-> TRUE]
NoResult == [pending |-> TRUE]
NoCall == [op |-> "none"]
NoLocals == [none |-> TRUE]

\* "anon" sends no credential, "ghost" has a credential but no User row
Callers == {"anon", "ghost", "u1", "adm"}

UserTable ==
  { [id |-> "U1", clerkUserId |-> "u1", role |-> "USER",
     name |-> <<"A", "t">>, email |-> <<"a", "x">>],
    [id |-> "A1", clerkUserId |-> "adm", role |-> "ADMIN",
     name |-> <<"x", "x">>, email |-> <<"o">>] }

UserById(id) == CHOOSE u \in UserTable : u.id = id

\* const { userId } = await auth()
Auth(caller) == IF caller = "anon" THEN Null ELSE [userId |-> caller]

\* db.user.findUnique({ where: { clerkUserId } })
UserFindUnique(clerkUserId) ==
  IF \E u \in UserTable : u.clerkUserId = clerkUserId
  THEN CHOOSE u \in UserTable : u.clerkUserId = clerkUserId
  ELSE Null

\* getDbUser() of part_001
GetDbUser(caller) ==
  IF Auth(caller) = Null THEN Null ELSE UserFindUnique(Auth(caller).userId)

----------------------------------------------------------------------------
(* The UserSavedCar table.  Its rows are addressed by the compound unique  *)
(* key userId_carId.                                                       *)

SavedRow(userId, carId) == [userId |-> userId, carId |-> carId]

RowCount(rows, userId, carId) ==
  Cardinality({i \in DOMAIN rows : rows[i] = SavedRow(userId, carId)})

\* db.userSavedCar.findUnique({ where: { userId_carId } })
SavedFindUnique(rows, userId, carId) ==
  IF RowCount(rows, userId, carId) > 0 THEN SavedRow(userId, carId) ELSE Null

RECURSIVE RemoveRow(_, _)
RemoveRow(rows, row) ==
  IF rows = <<>> THEN <<>>
  ELSE IF Head(rows) = row THEN RemoveRow(Tail(rows), row)
  ELSE <<Head(rows)>> \o RemoveRow(Tail(rows), row)

\* db.userSavedCar.delete: rejects when no row has the key
SavedDeleteThrows(rows, userId, carId) == RowCount(rows, userId, carId) = 0
SavedDelete(rows, userId, carId) == RemoveRow(rows, SavedRow(userId, carId))

\* db.userSavedCar.create: rejects when a row with the key userId_carId exists
SavedCreateThrowsUnchecked(rows, userId, carId) == FALSE
SavedCreateThrows(rows, userId, carId) == RowCount(rows, userId, carId) > 0
SavedCreate(rows, userId, carId) == Append(rows, SavedRow(userId, carId))

----------------------------------------------------------------------------
(* Strings are sequences of characters; arrays are sequences *)

Lower(ch) ==
  CASE ch = "T" -> "t"
    [] ch = "O" -> "o"
    [] ch = "A" -> "a"
    [] OTHER -> ch

ToLower(str) == [i \in 1..Len(str) |-> Lower(str[i])]

IsSubstring(needle, hay) ==
  \E i \in 0..(Len(hay) - Len(needle)) :
    \A j \in 1..Len(needle) : hay[i + j] = needle[j]

RECURSIVE SetToSeq(_)
SetToSeq(S) ==
  IF S = {} THEN <<>>
  ELSE LET x == CHOOSE y \in S : TRUE IN <<x>> \o SetToSeq(S \ {x})

\* the rows of a table (id -> row) as the array findMany returns, in store order
Rows(table) == SetToSeq({table[id] : id \in DOMAIN table})

\* the rows of S in ascending order of rank (a function on S): repeatedly a row
\* of least rank; rows of equal rank come in store order
RECURSIVE SortRows(_, _)
SortRows(S, rank) ==
  IF S = {} THEN <<>>
  ELSE LET x == CHOOSE y \in S : \A z \in S : rank[y] <= rank[z]
       IN <<x>> \o SortRows(S \ {x}, rank)

----------------------------------------------------------------------------
(* Prisma where objects: a record holds the keys the code attached         *)

EmptyObject == <<>>

\* { contains | equals: s, mode: "insensitive" }
StringFilter(f, v) ==
  LET fold(str) == IF "mode" \in DOMAIN f /\ f.mode = "insensitive"
                   THEN ToLower(str) ELSE str
  IN IF "contains" \in DOMAIN f
     THEN IsSubstring(fold(f.contains), fold(v))
     ELSE fold(v) = fold(f.equals)

\* the filters the code attaches
Insensitive(search) == [contains |-> search, mode |-> "insensitive"]
EqualsInsensitive(str) == [equals |-> str, mode |-> "insensitive"]

\* { gte: n, lte: m }
NumberFilter(f, v) ==
  /\ "gte" \in DOMAIN f => v >= f.gte
  /\ "lte" \in DOMAIN f => v <= f.lte

\* a row satisfies a where object when it satisfies every key of it
RECURSIVE EvalWhere(_, _)
EvalWhere(w, row) ==
  \A k \in DOMAIN w :
    CASE k = "OR" -> \E i \in DOMAIN w.OR : EvalWhere(w.OR[i], row)
      [] k = "AND" -> \A i \in DOMAIN w.AND : EvalWhere(w.AND[i], row)
      [] k \in {"car", "user"} -> EvalWhere(w[k], row[k])
      [] k = "status" -> row.status = w.status
      [] k = "price" -> NumberFilter(w.price, row.price)
      [] OTHER -> StringFilter(w[k], row[k])

----------------------------------------------------------------------------
(* The Car table *)

CarIds == {"c1", "c2"}
\* car ids a request may name; "cX" names no car
CarArgs == {"c1", "cX"}

\* db.car.findUnique({ where: { id: carId } })
CarFindUnique(carId) == IF carId \in DOMAIN cars THEN cars[carId] ELSE Null

----------------------------------------------------------------------------
(* Invocation and return of a server action *)

Last2(s) == IF Len(s) > 2 THEN Tail(s) ELSE s

\* request p invokes action c
Begin(p, c) ==
  /\ pc[p] = "idle"
  /\ call' = [call EXCEPT ![p] = c]
  /\ loc' = [loc EXCEPT ![p] = NoLocals]
  /\ res' = [res EXCEPT ![p] = NoResult]
  /\ threw' = [threw EXCEPT ![p] = FALSE]
  /\ touched' = [touched EXCEPT ![p] = FALSE]

\* the invocation of p returns envelope env; failed: an outage made a call it
\* awaited reject
Finish(p, env, failed) ==
  /\ pc' = [pc EXCEPT ![p] = "done"]
  /\ res' = [res EXCEPT ![p] = env]
  /\ threw' = [threw EXCEPT ![p] = failed]
  /\ loc' = [loc EXCEPT ![p] = NoLocals]

\* the caller has taken the returned value; p is free for the next invocation
Return(p) ==
  /\ pc[p] = "done"
  /\ pc' = [pc EXCEPT ![p] = "idle"]
  /\ call' = [call EXCEPT ![p] = NoCall]
  /\ res' = [res EXCEPT ![p] = NoResult]
  /\ threw' = [threw EXCEPT ![p] = FALSE]
  /\ touched' = [touched EXCEPT ![p] = FALSE]
  /\ UNCHANGED <<loc, savedCars, bookings, cars, variant>>

\* the invocation moves on to its next awaited call
Goto(p, label) ==
  /\ pc' = [pc EXCEPT ![p] = label]
  /\ UNCHANGED <<res, threw>>

Touch(p) == touched' = [touched EXCEPT ![p] = TRUE]

----------------------------------------------------------------------------
(* part_001: toggleSavedCar(carId) *)

NoError == "null"

Ok(data) == [success |-> TRUE, data |-> data, error |-> NoError]
Fail(msg) == [success |-> FALSE, data |-> Null, error |-> msg]

\* the caller's User id, "" when getDbUser() gives null
DbUserId(caller) == IF GetDbUser(caller) = Null THEN "" ELSE GetDbUser(caller).id

StartToggleSavedCar(p) ==
  \E caller \in Callers, carId \in CarArgs :
    /\ Begin(p, [op |-> "toggleSavedCar", caller |-> caller, carId |-> carId,
                 before |-> RowCount(savedCars, DbUserId(caller), carId)])
    /\ pc' = [pc EXCEPT ![p] = "t_getDbUser"]
    /\ UNCHANGED <<savedCars, bookings, cars>>

\* const dbUser = await getDbUser(); if (!dbUser) return Unauthorized
ToggleGetDbUser(p) ==
  /\ pc[p] = "t_getDbUser"
  /\ \E fail \in BOOLEAN :
       IF fail
       THEN Finish(p, Fail("Failed to toggle saved car"), TRUE)
       ELSE IF GetDbUser(call[p].caller) = Null
       THEN Finish(p, Fail("Unauthorized"), FALSE)
       ELSE /\ Goto(p, "t_findCar")
            /\ loc' = [loc EXCEPT ![p] = [dbUser |-> GetDbUser(call[p].caller)]]
  /\ UNCHANGED <<call, touched, savedCars, bookings, cars>>

\* const car = await db.car.findUnique(...); if (!car) return Car not found
ToggleFindCar(p) ==
  /\ pc[p] = "t_findCar"
  /\ Touch(p)
  /\ \E fail \in BOOLEAN :
       IF fail
       THEN Finish(p, Fail("Failed to toggle saved car"), TRUE)
       ELSE IF CarFindUnique(call[p].carId) = Null
       THEN Finish(p, Fail("Car not found"), FALSE)
       ELSE Goto(p, "t_findSave") /\ UNCHANGED loc
  /\ UNCHANGED <<call, savedCars, bookings, cars>>

\* if (existingSave) ... : the branch taken on the looked-up row
ExistingSaveNever(row) == FALSE
ExistingSave(row) == row # Null

\* const existingSave = await db.userSavedCar.findUnique(...)
ToggleFindSave(p) ==
  /\ pc[p] = "t_findSave"
  /\ \E fail \in BOOLEAN :
       IF fail
       THEN Finish(p, Fail("Failed to toggle saved car"), TRUE)
       ELSE IF ExistingSave(SavedFindUnique(savedCars, loc[p].dbUser.id, call[p].carId))
       THEN Goto(p, "t_delete") /\ UNCHANGED loc
       ELSE Goto(p, "t_create") /\ UNCHANGED loc
  /\ UNCHANGED <<call, touched, savedCars, bookings, cars>>

\* await db.userSavedCar.delete(...); return { saved: false }
ToggleDelete(p) ==
  /\ pc[p] = "t_delete"
  /\ \E fail \in BOOLEAN :
       IF fail \/ SavedDeleteThrows(savedCars, loc[p].dbUser.id, call[p].carId)
       THEN /\ savedCars' = savedCars
            /\ Finish(p, Fail("Failed to toggle saved car"), fail)
       ELSE /\ savedCars' = SavedDelete(savedCars, loc[p].dbUser.id, call[p].carId)
            /\ Finish(p, Ok([saved |-> FALSE]), FALSE)
  /\ UNCHANGED <<call, touched, bookings, cars>>

\* await db.userSavedCar.create(...); return { saved: true }
ToggleCreate(p) ==
  /\ pc[p] = "t_create"
  /\ \E fail \in BOOLEAN :
       IF fail \/ SavedCreateThrows(savedCars, loc[p].dbUser.id, call[p].carId)
       THEN /\ savedCars' = savedCars
            /\ Finish(p, Fail("Failed to toggle saved car"), fail)
       ELSE /\ savedCars' = SavedCreate(savedCars, loc[p].dbUser.id, call[p].carId)
            /\ Finish(p, Ok([saved |-> TRUE]), FALSE)
  /\ UNCHANGED <<call, touched, bookings, cars>>

----------------------------------------------------------------------------
(* part_001: getCars({ search, make, ..., minPrice, maxPrice, sortBy, page, limit }) *)

\* Number.MAX_SAFE_INTEGER (2^53 - 1), here the largest number of the model
MAX_SAFE_INTEGER == 2147483647

\* parseFloat applied to a value that is already an integer number (the only
\* prices passed here): the number itself
ParseFloat(n) == n

\* the price clause that bounds the price above for every numeric maxPrice
\* below the largest number, 0 included
PriceClauseZeroIsBound(minPrice, maxPrice) ==
  [gte |-> minPrice]
    @@ (IF maxPrice < MAX_SAFE_INTEGER THEN [lte |-> ParseFloat(maxPrice)] ELSE EmptyObject)
\* part_001 107-111: where.price; `parseFloat(minPrice) || 0`, and lte only under
\* `if (maxPrice && maxPrice < Number.MAX_SAFE_INTEGER)`, where 0 is falsy
PriceClause(minPrice, maxPrice) ==
  [gte |-> IF ParseFloat(minPrice) # 0 THEN ParseFloat(minPrice) ELSE 0]
    @@ (IF maxPrice # 0 /\ maxPrice < MAX_SAFE_INTEGER
        THEN [lte |-> ParseFloat(maxPrice)] ELSE EmptyObject)

\* part_001 92-111: the where object
WhereCars(a) ==
  [status |-> "AVAILABLE"]
    @@ (IF a.search # <<>>
        THEN [OR |-> << [make |-> Insensitive(a.search)],
                        [model |-> Insensitive(a.search)],
                        [description |-> Insensitive(a.search)] >>]
        ELSE EmptyObject)
    @@ (IF a.make # <<>> THEN [make |-> EqualsInsensitive(a.make)] ELSE EmptyObject)
    @@ (IF a.bodyType # <<>> THEN [bodyType |-> EqualsInsensitive(a.bodyType)]
        ELSE EmptyObject)
    @@ (IF a.fuelType # <<>> THEN [fuelType |-> EqualsInsensitive(a.fuelType)]
        ELSE EmptyObject)
    @@ (IF a.transmission # <<>> THEN [transmission |-> EqualsInsensitive(a.transmission)]
        ELSE EmptyObject)
    @@ [price |-> PriceClause(a.minPrice, a.maxPrice)]

\* const skip = (page - 1) * limit
SkipWholePages(page, limit) == page * limit
Skip(page, limit) == (page - 1) * limit

\* part_001 117-129: orderBy, as the rank rows ascend in
OrderRank(sortBy, car) ==
  CASE sortBy = "priceAsc" -> car.price
    [] sortBy = "priceDesc" -> 0 - car.price
    [] OTHER -> 0 - car.createdAt

\* db.car.count({ where })
CountCars(where) == Cardinality({id \in DOMAIN cars : EvalWhere(where, cars[id])})

\* db.car.findMany({ where, take, skip, orderBy })
FindCars(where, take, skip, sortBy) ==
  LET found == {cars[id] : id \in {i \in DOMAIN cars : EvalWhere(where, cars[i])}}
      sorted == SortRows(found, [c \in found |-> OrderRank(sortBy, c)])
      last == IF skip + take < Len(sorted) THEN skip + take ELSE Len(sorted)
  IN [i \in 1..(IF last > skip THEN last - skip ELSE 0) |-> sorted[skip + i]]

\* pages: limit > 0 ? Math.ceil(totalCars / limit) : 0
Pages(totalCars, limit) ==
  IF limit > 0 THEN (totalCars + limit - 1) \div limit ELSE 0

\* serializeCarData(car, wishlisted) over the fetched page, and the envelope
CarsEnvelope(a, found, totalCars, wishlisted) ==
  [success |-> TRUE,
   data |-> [i \in 1..Len(found) |->
               [id |-> found[i].id, price |-> ParseFloat(found[i].price),
                wishlisted |-> found[i].id \in wishlisted]],
   pagination |-> [total |-> totalCars, page |-> a.page, limit |-> a.limit,
                   pages |-> Pages(totalCars, a.limit)],
   error |-> NoError]

CarCallers == {"anon", "u1"}
CarTextArgs ==
  { [search |-> <<>>, make |-> <<>>],
    [search |-> <<"a">>, make |-> <<"t", "O">>] }
MinPriceArgs == {0, 2}
MaxPriceArgs == {0, 1, 2, MAX_SAFE_INTEGER}
SortArgs == {"newest", "priceAsc", "priceDesc", "oldest"}
PageArgs == {1, 2, 3}
LimitArgs == {1, 2}

StartGetCars(p) ==
  \E caller \in CarCallers, text \in CarTextArgs, minPrice \in MinPriceArgs,
     maxPrice \in MaxPriceArgs, sortBy \in SortArgs, page \in PageArgs,
     limit \in LimitArgs :
    /\ Begin(p, [op |-> "getCars", caller |-> caller, search |-> text.search,
                 make |-> text.make, bodyType |-> <<>>, fuelType |-> <<>>,
                 transmission |-> <<>>, minPrice |-> minPrice, maxPrice |-> maxPrice,
                 sortBy |-> sortBy, page |-> page, limit |-> limit])
    /\ pc' = [pc EXCEPT ![p] = "gc_getDbUser"]
    /\ UNCHANGED <<savedCars, bookings, cars, variant, log>>

\* const dbUser = await getDbUser()
GetCarsDbUser(p) ==
  /\ pc[p] = "gc_getDbUser"
  /\ \E fail \in BOOLEAN :
       IF fail THEN Finish(p, Fail("Failed to fetch cars"), TRUE)
       ELSE /\ Goto(p, "gc_query")
            /\ loc' = [loc EXCEPT ![p] = [dbUser |-> GetDbUser(call[p].caller)]]
  /\ UNCHANGED <<call, touched, savedCars, bookings, cars, variant, log>>

\* Promise.all([db.car.count, db.car.findMany]); an anonymous caller returns here
GetCarsQuery(p) ==
  /\ pc[p] = "gc_query"
  /\ Touch(p)
  /\ \E failCount \in BOOLEAN, failFind \in BOOLEAN :
       LET where == WhereCars(call[p])
           totalCars == CountCars(where)
           found == FindCars(where, call[p].limit, Skip(call[p].page, call[p].limit),
                             call[p].sortBy)
       IN IF failCount \/ failFind THEN Finish(p, Fail("Failed to fetch cars"), TRUE)
          ELSE IF loc[p].dbUser = Null
          THEN Finish(p, CarsEnvelope(call[p], found, totalCars, {}), FALSE)
          ELSE /\ Goto(p, "gc_saved")
               /\ loc' = [loc EXCEPT ![p] = [dbUser |-> loc[p].dbUser,
                                              totalCars |-> totalCars, cars |-> found]]
  /\ UNCHANGED <<call, savedCars, bookings, cars, variant, log>>

\* const savedCars = await db.userSavedCar.findMany({ where: { userId } })
GetCarsSaved(p) ==
  /\ pc[p] = "gc_saved"
  /\ \E fail \in BOOLEAN :
       IF fail THEN Finish(p, Fail("Failed to fetch cars"), TRUE)
       ELSE Finish(p, CarsEnvelope(call[p], loc[p].cars, loc[p].totalCars,
                     {savedCars[i].carId : i \in {j \in DOMAIN savedCars :
                                                    savedCars[j].userId = loc[p].dbUser.id}}),
                   FALSE)
  /\ UNCHANGED <<call, touched, savedCars, bookings, cars, variant, log>>

----------------------------------------------------------------------------
(* Initial tables *)

CarStatuses == {"AVAILABLE", "UNAVAILABLE", "SOLD"}

IdleProcs ==
  /\ pc = [p \in Procs |-> "idle"]
  /\ call = [p \in Procs |-> NoCall]
  /\ loc = [p \in Procs |-> NoLocals]
  /\ res = [p \in Procs |-> NoResult]
  /\ threw = [p \in Procs |-> FALSE]
  /\ touched = [p \in Procs |-> FALSE]
  /\ log = <<>>

FixtureCars ==
  [c \in CarIds |->
     IF c = "c1"
     THEN [id |-> c, status |-> "SOLD", featured |-> TRUE, price |-> 2, createdAt |-> 1,
           make |-> <<"T", "o">>, model |-> <<"x", "a">>]
     ELSE [id |-> c, status |-> "AVAILABLE", featured |-> FALSE, price |-> 1, createdAt |-> 2,
           make |-> <<"x">>, model |-> <<"o", "t">>]]

InitToggle ==
  /\ IdleProcs
  /\ savedCars \in {<<>>, <<SavedRow("U1", "c1")>>}
  /\ bookings = <<>>
  /\ cars = FixtureCars
  /\ variant = "admin.js"

\* one caller that awaits each invocation before making the next: log keeps its
\* last two invocations
LogReturn(p) ==
  log' = IF pc'[p] = "done" /\ pc[p] # "done"
         THEN Last2(Append(log, [call |-> call[p], res |-> res'[p], failed |-> threw'[p],
                                 rows |-> savedCars']))
         ELSE log

\* any number of requests, interleaved at their awaited calls
NextToggle ==
  \E p \in Procs :
    \/ StartToggleSavedCar(p) /\ UNCHANGED <<log, variant>>
    \/ ToggleGetDbUser(p) /\ UNCHANGED <<log, variant>>
    \/ ToggleFindCar(p) /\ UNCHANGED <<log, variant>>
    \/ ToggleFindSave(p) /\ UNCHANGED <<log, variant>>
    \/ ToggleDelete(p) /\ UNCHANGED <<log, variant>>
    \/ ToggleCreate(p) /\ UNCHANGED <<log, variant>>
    \/ Return(p) /\ UNCHANGED log

SpecToggle == InitToggle /\ [][NextToggle]_vars

\* the listing over every small inventory: car 0 is sold, the others available
ListingPrices == {0, 1, 2}

InitCars ==
  /\ IdleProcs
  /\ savedCars = <<SavedRow("U1", 2)>>
  /\ bookings = <<>>
  /\ variant = "admin.js"
  /\ \E priceOf \in [0..MaxCars -> ListingPrices] :
       /\ priceOf[0] = 1
       /\ cars = [c \in 0..MaxCars |->
                 [id |-> c, status |-> IF c = 0 THEN "SOLD" ELSE "AVAILABLE",
                  price |-> priceOf[c], createdAt |-> c,
                  make |-> IF c = 2 THEN <<"x">> ELSE <<"T", "o">>,
                  model |-> <<"x">>,
                  description |-> IF c = 3 THEN <<"o">> ELSE <<"A">>]]

NextCars ==
  \/ StartGetCars(1)
  \/ GetCarsDbUser(1)
  \/ GetCarsQuery(1)
  \/ GetCarsSaved(1)
  \/ Return(1) /\ UNCHANGED log

SpecCars == InitCars /\ [][NextCars]_vars

NextToggleSeq ==
  \/ StartToggleSavedCar(1) /\ LogReturn(1) /\ UNCHANGED variant
  \/ ToggleGetDbUser(1) /\ LogReturn(1) /\ UNCHANGED variant
  \/ ToggleFindCar(1) /\ LogReturn(1) /\ UNCHANGED variant
  \/ ToggleFindSave(1) /\ LogReturn(1) /\ UNCHANGED variant
  \/ ToggleDelete(1) /\ LogReturn(1) /\ UNCHANGED variant
  \/ ToggleCreate(1) /\ LogReturn(1) /\ UNCHANGED variant
  \/ Return(1) /\ UNCHANGED log

SpecToggleSeq == InitToggle /\ [][NextToggleSeq]_vars

----------------------------------------------------------------------------
\* C1: under any interleaving of toggleSavedCar invocations the UserSavedCar
\* table holds at most one row for every (user, car) pair.
C1_AtMostOneRow ==
  \A u \in {"U1", "A1"}, c \in CarArgs : RowCount(savedCars, u, c) <= 1

\* two invocations for the same pair are both about to create the row
C1_Witness ==
  \E p, q \in Procs :
    /\ p # q
    /\ pc[p] = "t_create" /\ pc[q] = "t_create"
    /\ call[p].caller = call[q].caller /\ call[p].carId = call[q].carId

\* C5: two toggleSavedCar invocations of an authenticated caller for an existing
\* car, run one after the other with no outage, both succeed, report opposite
\* saved flags (first the negation of the original membership), restore the
\* original membership and leave no duplicate row after either.
C5_Pair ==
  /\ Len(log) = 2
  /\ log[1].call.caller = log[2].call.caller
  /\ log[1].call.carId = log[2].call.carId
  /\ GetDbUser(log[1].call.caller) # Null
  /\ log[1].call.carId \in DOMAIN cars
  /\ ~log[1].failed /\ ~log[2].failed

C5_DoubleToggle ==
  C5_Pair =>
    LET u == DbUserId(log[1].call.caller)
        c == log[1].call.carId
        before == log[1].call.before
    IN /\ log[1].res.success /\ log[2].res.success
       /\ log[1].res.data.saved = (before = 0)
       /\ log[2].res.data.saved = (before > 0)
       /\ RowCount(log[1].rows, u, c) = 1 - before
       /\ RowCount(log[2].rows, u, c) = before
       /\ before <= 1

\* a pair that started from a saved car: unsaved, then saved again
C5_Witness ==
  /\ C5_Pair
  /\ log[1].call.before = 1
  /\ log[2].res = Ok([saved |-> TRUE])

----------------------------------------------------------------------------
(* The admin modules: src/actions/admin.js and its older variant part_000 *)

Variants == {"admin.js", "part_000"}

\* message of the Error a failing store or identity call rejects with
StoreErrorMessage == "store error"

\* admin.js: getDbAdmin(): the caller's User row when its role is ADMIN, else null
GetDbAdminAnyRole(caller) ==
  IF Auth(caller) = Null THEN Null ELSE UserFindUnique(Auth(caller).userId)
GetDbAdmin(caller) ==
  IF Auth(caller) = Null THEN Null
  ELSE LET user == UserFindUnique(Auth(caller).userId)
       IN IF user = Null \/ user.role # "ADMIN" THEN Null ELSE user

\* part_000: requireAdmin(): the message of the Error it throws, "" when it
\* returns the user
RequireAdminError(caller) ==
  IF Auth(caller) = Null THEN "Unauthorized"
  ELSE LET user == UserFindUnique(Auth(caller).userId)
       IN IF user = Null \/ user.role # "ADMIN" THEN "Unauthorized access" ELSE ""

\* the envelopes of part_000
LegacyOk(data) == [success |-> TRUE, data |-> data]
LegacyFail(msg) == [success |-> FALSE, error |-> msg]

\* the admin check of the deployed variant lets the caller through
IsAdmin(caller) ==
  IF variant = "admin.js" THEN GetDbAdmin(caller) # Null
  ELSE RequireAdminError(caller) = ""

\* what a gated action returns to a caller the admin check turns away
Denied(caller) ==
  IF variant = "admin.js" THEN Fail("Unauthorized")
  ELSE LegacyFail(RequireAdminError(caller))

\* what the catch block returns: a fixed message (admin.js), error.message (part_000)
Caught(msg) ==
  IF variant = "admin.js" THEN Fail(msg) ELSE LegacyFail(StoreErrorMessage)

(* getAdmin() *)

StartGetAdmin(p) ==
  \E caller \in Callers :
    /\ Begin(p, [op |-> "getAdmin", caller |-> caller])
    /\ pc' = [pc EXCEPT ![p] = "ga_auth"]
    /\ UNCHANGED <<savedCars, bookings, cars, variant, log>>

\* admin.js 19-30: a failed check is reported; part_000 23-30: every throw of
\* requireAdmin, a failed call included, is answered "not-admin"
GetAdmin(p) ==
  /\ pc[p] = "ga_auth"
  /\ \E fail \in BOOLEAN :
       IF variant = "admin.js"
       THEN IF fail THEN Finish(p, Fail("Failed to check admin"), TRUE)
            ELSE IF GetDbAdmin(call[p].caller) = Null
            THEN Finish(p, Ok([authorized |-> FALSE, reason |-> "not-admin"]), FALSE)
            ELSE Finish(p, Ok([authorized |-> TRUE, user |-> GetDbAdmin(call[p].caller)]),
                        FALSE)
       ELSE IF fail \/ RequireAdminError(call[p].caller) # ""
            THEN Finish(p, [authorized |-> FALSE, reason |-> "not-admin"], fail)
            ELSE Finish(p, [authorized |-> TRUE, user |-> GetDbAdmin(call[p].caller)], FALSE)
  /\ UNCHANGED <<call, touched, savedCars, bookings, cars, variant, log>>

\* the admin check that opens the three gated actions, then on to label next
AdminGate(p, label, msg, next) ==
  /\ pc[p] = label
  /\ \E fail \in BOOLEAN :
       IF fail THEN Finish(p, Caught(msg), TRUE)
       ELSE IF ~IsAdmin(call[p].caller) THEN Finish(p, Denied(call[p].caller), FALSE)
       ELSE Goto(p, next) /\ UNCHANGED loc
  /\ UNCHANGED <<call, touched, savedCars, bookings, cars, variant, log>>

(* updateTestDriveStatus(bookingId, newStatus) *)

BookingArgs == {"b1", "bX"}
NewStatusArgs == {"CONFIRMED", "COMPLETED", "BOGUS"}

validStatuses == {"PENDING", "CONFIRMED", "COMPLETED", "CANCELLED", "NO_SHOW"}

\* validStatuses.includes(newStatus)
IncludesAnything(newStatus) == TRUE
ValidStatusesIncludes(newStatus) == newStatus \in validStatuses

\* db.testDriveBooking.findUnique({ where: { id: bookingId } })
BookingFindUnique(bookingId) ==
  IF bookingId \in DOMAIN bookings THEN bookings[bookingId] ELSE Null

StartUpdateTestDriveStatus(p) ==
  \E caller \in Callers, bookingId \in BookingArgs, newStatus \in NewStatusArgs :
    /\ Begin(p, [op |-> "updateTestDriveStatus", caller |-> caller,
                 bookingId |-> bookingId, newStatus |-> newStatus])
    /\ pc' = [pc EXCEPT ![p] = "uts_auth"]
    /\ UNCHANGED <<savedCars, bookings, cars, variant, log>>

UpdateAuth(p) ==
  AdminGate(p, "uts_auth", "Failed to update test drive status", "uts_findBooking")

\* const booking = await findUnique(...); not found / invalid status return here
UpdateFindBooking(p) ==
  /\ pc[p] = "uts_findBooking"
  /\ Touch(p)
  /\ \E fail \in BOOLEAN :
       IF fail THEN Finish(p, Caught("Failed to update test drive status"), TRUE)
       ELSE IF BookingFindUnique(call[p].bookingId) = Null
       THEN Finish(p, IF variant = "admin.js" THEN Fail("Booking not found")
                      ELSE LegacyFail("Booking not found"), FALSE)
       ELSE IF ~ValidStatusesIncludes(call[p].newStatus)
       THEN Finish(p, IF variant = "admin.js" THEN Fail("Invalid status")
                      ELSE LegacyFail("Invalid status"), FALSE)
       ELSE Goto(p, "uts_update") /\ UNCHANGED loc
  /\ UNCHANGED <<call, savedCars, bookings, cars, variant, log>>

\* await db.testDriveBooking.update(...), which rejects when no row has the id;
\* the revalidatePath calls touch no table
UpdateWrite(p) ==
  /\ pc[p] = "uts_update"
  /\ \E fail \in BOOLEAN :
       IF fail \/ call[p].bookingId \notin DOMAIN bookings
       THEN /\ bookings' = bookings
            /\ Finish(p, Caught("Failed to update test drive status"), fail)
       ELSE /\ bookings' = [bookings EXCEPT ![call[p].bookingId].status = call[p].newStatus]
            /\ Finish(p, IF variant = "admin.js" THEN Ok([message |-> "Status updated"])
                         ELSE [success |-> TRUE,
                               message |-> "Test drive status updated successfully"], FALSE)
  /\ UNCHANGED <<call, touched, savedCars, cars, variant, log>>

(* getAdminTestDrives({ search, status }) *)

\* the two-entity OR both variants build for a non-empty search
SearchClauses(search) ==
  << [car |-> [OR |-> << [make |-> Insensitive(search)],
                        [model |-> Insensitive(search)] >>]],
     [user |-> [OR |-> << [name |-> Insensitive(search)],
                         [email |-> Insensitive(search)] >>]] >>

\* admin.js 40-62: where.status = status; where.OR = [...]
WhereAdminStatusInOr(search, status) ==
  IF search # <<>>
  THEN [OR |-> (IF status # "" THEN <<[status |-> status]>> ELSE <<>>)
               \o SearchClauses(search)]
  ELSE IF status # "" THEN [status |-> status] ELSE EmptyObject
WhereAdmin(search, status) ==
  (IF status # "" THEN [status |-> status] ELSE EmptyObject)
    @@ (IF search # <<>> THEN [OR |-> SearchClauses(search)] ELSE EmptyObject)

\* part_000 38-66: where.AND = [{ status }]; where.AND = [...(where.AND || []), { OR }]
WhereLegacy(search, status) ==
  LET w1 == IF status # "" THEN [AND |-> <<[status |-> status]>>] ELSE EmptyObject
  IN IF search # <<>>
     THEN [AND |-> (IF "AND" \in DOMAIN w1 THEN w1.AND ELSE <<>>)
                   \o <<[OR |-> SearchClauses(search)]>>] @@ w1
     ELSE w1

\* include: { car: true, user: { select: ... } }
JoinBooking(b) == b @@ [car |-> cars[b.carId], user |-> UserById(b.userId)]

\* orderBy: [{ bookingDate: "desc" }, { startTime: "asc" }]
BookingRank(b) == 100 * (0 - b.bookingDate) + b.startTime

\* db.testDriveBooking.findMany({ where, include, orderBy }) and the formatting map
FindTestDrives(where) ==
  LET found == {b \in {JoinBooking(bookings[id]) : id \in DOMAIN bookings} :
                  EvalWhere(where, b)}
      sorted == SortRows(found, [b \in found |-> BookingRank(b)])
  IN [i \in 1..Len(sorted) |->
        [id |-> sorted[i].id, carId |-> sorted[i].carId, userId |-> sorted[i].userId,
         status |-> sorted[i].status]]

SearchChars == {"T", "o", "a", "x"}
SearchArgs == UNION {[1..n -> SearchChars] : n \in 0..MaxSearchLen}
StatusArgs == {"", "PENDING", "COMPLETED"}

StartGetAdminTestDrives(p) ==
  \E caller \in Callers, search \in SearchArgs, status \in StatusArgs :
    /\ Begin(p, [op |-> "getAdminTestDrives", caller |-> caller,
                 search |-> search, status |-> status])
    /\ pc' = [pc EXCEPT ![p] = "gtd_auth"]
    /\ UNCHANGED <<savedCars, bookings, cars, variant, log>>

TestDrivesAuth(p) ==
  AdminGate(p, "gtd_auth", "Failed to fetch test drives", "gtd_findMany")

TestDrivesFindMany(p) ==
  /\ pc[p] = "gtd_findMany"
  /\ Touch(p)
  /\ \E fail \in BOOLEAN :
       IF fail THEN Finish(p, Caught("Failed to fetch test drives"), TRUE)
       ELSE IF variant = "admin.js"
       THEN Finish(p, Ok(FindTestDrives(WhereAdmin(call[p].search, call[p].status))), FALSE)
       ELSE Finish(p, LegacyOk(FindTestDrives(WhereLegacy(call[p].search, call[p].status))),
                   FALSE)
  /\ UNCHANGED <<call, savedCars, bookings, cars, variant, log>>

(* getDashboardData() *)

\* parseFloat(x.toFixed(2)) of x = num / den >= 0, in hundredths
ToFixed2(num, den) == (200 * num + den) \div (2 * den)

\* admin.js 164-165: completedCarIds is an array, membership by includes
SoldPerCompletedBooking(carRows, testDrives) ==
  Len(SelectSeq(testDrives, LAMBDA td :
    /\ td.status = "COMPLETED"
    /\ \E i \in DOMAIN carRows : carRows[i].status = "SOLD" /\ carRows[i].id = td.carId))
\* every SOLD car counted as soon as any booking is COMPLETED, whatever its car
SoldWheneverCompleted(carRows, testDrives) ==
  Len(SelectSeq(carRows, LAMBDA c :
    c.status = "SOLD" /\ \E i \in DOMAIN testDrives : testDrives[i].status = "COMPLETED"))
SoldAfterTD(carRows, testDrives) ==
  LET completedTDs == SelectSeq(testDrives, LAMBDA td : td.status = "COMPLETED")
      completedCarIds == [i \in 1..Len(completedTDs) |-> completedTDs[i].carId]
  IN Len(SelectSeq(carRows, LAMBDA c :
       c.status = "SOLD" /\ \E i \in DOMAIN completedCarIds : completedCarIds[i] = c.id))

\* part_000 167-172: completedCarIds is a Set, membership by has
SoldAfterTestDrive(carRows, testDrives) ==
  LET completedCarIds ==
        {testDrives[i].carId : i \in {j \in DOMAIN testDrives :
                                        testDrives[j].status = "COMPLETED"}}
  IN Len(SelectSeq(carRows, LAMBDA c : c.status = "SOLD" /\ c.id \in completedCarIds))

\* the statistics both variants compute from the two fetched arrays
DashboardStats(carRows, testDrives) ==
  LET completed == Len(SelectSeq(testDrives, LAMBDA td : td.status = "COMPLETED"))
      soldAfter == IF variant = "admin.js" THEN SoldAfterTD(carRows, testDrives)
                   ELSE SoldAfterTestDrive(carRows, testDrives)
  IN [cars |->
        [total |-> Len(carRows),
         available |-> Len(SelectSeq(carRows, LAMBDA c : c.status = "AVAILABLE")),
         sold |-> Len(SelectSeq(carRows, LAMBDA c : c.status = "SOLD")),
         unavailable |-> Len(SelectSeq(carRows, LAMBDA c : c.status = "UNAVAILABLE")),
         featured |-> Len(SelectSeq(carRows, LAMBDA c : c.featured))],
      testDrives |->
        [total |-> Len(testDrives),
         pending |-> Len(SelectSeq(testDrives, LAMBDA td : td.status = "PENDING")),
         confirmed |-> Len(SelectSeq(testDrives, LAMBDA td : td.status = "CONFIRMED")),
         completed |-> completed,
         cancelled |-> Len(SelectSeq(testDrives, LAMBDA td : td.status = "CANCELLED")),
         noShow |-> Len(SelectSeq(testDrives, LAMBDA td : td.status = "NO_SHOW")),
         conversionRate |-> IF completed > 0 THEN ToFixed2(soldAfter * 100, completed)
                            ELSE 0]]

StartGetDashboardData(p) ==
  \E caller \in Callers :
    /\ Begin(p, [op |-> "getDashboardData", caller |-> caller])
    /\ pc' = [pc EXCEPT ![p] = "dash_auth"]
    /\ UNCHANGED <<savedCars, bookings, cars, variant, log>>

DashboardAuth(p) ==
  AdminGate(p, "dash_auth", "Failed to fetch dashboard data", "dash_fetch")

\* Promise.all([db.car.findMany, db.testDriveBooking.findMany]): either may reject
DashboardFetch(p) ==
  /\ pc[p] = "dash_fetch"
  /\ Touch(p)
  /\ \E failCars \in BOOLEAN, failTestDrives \in BOOLEAN :
       IF failCars \/ failTestDrives
       THEN Finish(p, Caught("Failed to fetch dashboard data"), TRUE)
       ELSE IF variant = "admin.js"
       THEN Finish(p, Ok(DashboardStats(Rows(cars), Rows(bookings))), FALSE)
       ELSE Finish(p, LegacyOk(DashboardStats(Rows(cars), Rows(bookings))), FALSE)
  /\ UNCHANGED <<call, savedCars, bookings, cars, variant, log>>

----------------------------------------------------------------------------
(* Admin requests, interleaved at their awaited calls *)

BookingStatuses == {"PENDING", "CONFIRMED", "COMPLETED", "CANCELLED", "NO_SHOW"}

FixtureBookings(status1, status2) ==
  [b \in {"b1", "b2"} |->
     IF b = "b1"
     THEN [id |-> b, carId |-> "c1", userId |-> "U1", status |-> status1,
           bookingDate |-> 2, startTime |-> 9]
     ELSE [id |-> b, carId |-> "c2", userId |-> "A1", status |-> status2,
           bookingDate |-> 1, startTime |-> 10]]

InitAdmin ==
  /\ IdleProcs
  /\ savedCars = <<>>
  /\ cars = FixtureCars
  /\ variant \in Variants
  /\ \E status1 \in BookingStatuses : bookings = FixtureBookings(status1, "PENDING")

InitAdminSeq ==
  /\ IdleProcs
  /\ savedCars = <<>>
  /\ cars = FixtureCars
  /\ variant \in Variants
  /\ \E status1 \in BookingStatuses, status2 \in {"PENDING", "COMPLETED"} :
       bookings = FixtureBookings(status1, status2)

\* the dashboard over every small Car and TestDriveBooking table
DashStatuses == {"PENDING", "COMPLETED", "CANCELLED"}

InitDash ==
  /\ IdleProcs
  /\ savedCars = <<>>
  /\ variant \in Variants
  /\ \E st \in [CarIds -> CarStatuses] :
       cars = [c \in CarIds |-> [FixtureCars[c] EXCEPT !.status = st[c]]]
  /\ \E n \in 0..MaxBookings :
       \E carOf \in [1..n -> CarIds], statusOf \in [1..n -> DashStatuses] :
         bookings = [b \in 1..n |->
                       [id |-> b, carId |-> carOf[b], userId |-> "U1",
                        status |-> statusOf[b], bookingDate |-> b, startTime |-> 9]]

\* any number of updateTestDriveStatus requests, interleaved at their awaited calls
NextAdmin ==
  \E p \in Procs :
    \/ StartUpdateTestDriveStatus(p)
    \/ UpdateAuth(p)
    \/ UpdateFindBooking(p)
    \/ UpdateWrite(p)
    \/ Return(p) /\ UNCHANGED log

SpecAdmin == InitAdmin /\ [][NextAdmin]_vars

\* one session that awaits each admin action before calling the next
NextAdminSeq ==
  \/ StartGetAdmin(1)
  \/ GetAdmin(1)
  \/ StartUpdateTestDriveStatus(1)
  \/ UpdateAuth(1)
  \/ UpdateFindBooking(1)
  \/ UpdateWrite(1)
  \/ StartGetAdminTestDrives(1)
  \/ TestDrivesAuth(1)
  \/ TestDrivesFindMany(1)
  \/ StartGetDashboardData(1)
  \/ DashboardAuth(1)
  \/ DashboardFetch(1)
  \/ Return(1) /\ UNCHANGED log

SpecAdminSeq == InitAdminSeq /\ [][NextAdminSeq]_vars

NextDash ==
  \/ StartGetDashboardData(1)
  \/ DashboardAuth(1)
  \/ DashboardFetch(1)
  \/ Return(1) /\ UNCHANGED log

SpecDash == InitDash /\ [][NextDash]_vars

----------------------------------------------------------------------------
\* the caller has a User row with role ADMIN
AdminCaller(caller) ==
  \E u \in UserTable : u.clerkUserId = caller /\ u.role = "ADMIN"

Returned(p) == pc[p] = "done"

\* C2: for an admin caller and an existing booking, updateTestDriveStatus with a
\* newStatus outside the five values returns success false with error
\* "Invalid status", and no step of the invocation changes any booking.
C2_Case(p) ==
  /\ call[p].op = "updateTestDriveStatus"
  /\ AdminCaller(call[p].caller)
  /\ call[p].bookingId \in DOMAIN bookings
  /\ call[p].newStatus \notin BookingStatuses

C2_Envelope ==
  \A p \in Procs :
    Returned(p) /\ C2_Case(p) /\ ~threw[p] =>
      res[p].success = FALSE /\ res[p].error = "Invalid status"

C2_NoWrite ==
  \A p \in Procs :
    /\ pc'[p] # pc[p]
    /\ call'[p].op = "updateTestDriveStatus"
    /\ call'[p].newStatus \notin BookingStatuses
    => bookings' = bookings

C2_InvalidStatus == []C2_Envelope /\ [][C2_NoWrite]_vars

\* an admin's update with a bogus status was answered while another request ran
C2_Witness ==
  \E p \in Procs :
    /\ Returned(p) /\ C2_Case(p) /\ ~threw[p]
    /\ res[p].error = "Invalid status"
    /\ \E q \in Procs : pc[q] = "uts_update"

\* C4: every stored booking's status is one of the five enumerated values.
C4_StatusEnumerated ==
  \A b \in DOMAIN bookings : bookings[b].status \in BookingStatuses

\* updateTestDriveStatus wrote CONFIRMED over another status it had written
C4_Witness ==
  \E p, q \in Procs :
    /\ p # q
    /\ Returned(p) /\ res[p].success /\ call[p].newStatus = "COMPLETED"
    /\ Returned(q) /\ res[q].success /\ call[q].newStatus = "CONFIRMED"
    /\ bookings["b1"].status = "CONFIRMED"

\* C3: for a caller that is anonymous, has no User row or is no admin,
\* getAdminTestDrives, updateTestDriveStatus and getDashboardData stop at the
\* admin check: the invocation reaches no table but User, returns a failure
\* without data, and changes no booking.
GatedOps == {"getAdminTestDrives", "updateTestDriveStatus", "getDashboardData"}

C3_Case(p) == call[p].op \in GatedOps /\ ~AdminCaller(call[p].caller)

C3_Stopped ==
  \A p \in Procs :
    C3_Case(p) =>
      /\ ~touched[p]
      /\ pc[p] \in {"done", "gtd_auth", "uts_auth", "dash_auth"}
      /\ Returned(p) =>
            /\ res[p].success = FALSE
            /\ "data" \in DOMAIN res[p] => res[p].data = Null

C3_NoWrite ==
  \A p \in Procs :
    /\ pc'[p] # pc[p]
    /\ call'[p].op \in GatedOps /\ ~AdminCaller(call'[p].caller)
    => bookings' = bookings

C3_AdminCheckFirst == []C3_Stopped /\ [][C3_NoWrite]_vars

\* a signed-in user without the ADMIN role was turned away from the dashboard
C3_Witness ==
  /\ Returned(1) /\ call[1].op = "getDashboardData" /\ call[1].caller = "u1"
  /\ ~threw[1] /\ res[1].success = FALSE

\* C9: when a store or identity call of an invocation fails, the invocation
\* returns a value with success = false and an error message, and
\* getDashboardData returns no statistics.
C9_FailureEnvelope ==
  \A p \in Procs :
    Returned(p) /\ threw[p] =>
      /\ "success" \in DOMAIN res[p] /\ res[p].success = FALSE
      /\ "error" \in DOMAIN res[p] /\ res[p].error # NoError
      /\ "data" \in DOMAIN res[p] => res[p].data = Null

\* C7: conversionRate is 100 * (SOLD cars that are the car of at least one
\* COMPLETED booking) / (COMPLETED bookings) rounded to two decimals, and 0
\* when no booking is COMPLETED.  Rates are in hundredths (5000 is 50.00).
C7_SoldCars ==
  {c \in DOMAIN cars :
     /\ cars[c].status = "SOLD"
     /\ \E b \in DOMAIN bookings :
          bookings[b].status = "COMPLETED" /\ bookings[b].carId = c}

C7_Completed == {b \in DOMAIN bookings : bookings[b].status = "COMPLETED"}

C7_Dashboard(p) ==
  Returned(p) /\ call[p].op = "getDashboardData" /\ res[p].success

C7_ConversionRate ==
  \A p \in Procs :
    C7_Dashboard(p) =>
      LET rate == res[p].data.testDrives.conversionRate
          n == Cardinality(C7_SoldCars)
          d == Cardinality(C7_Completed)
          diff == rate * d - 10000 * n
      IN IF d = 0 THEN rate = 0
         ELSE 2 * diff <= d /\ 2 * (0 - diff) <= d

\* two COMPLETED bookings of the same SOLD car: 50.00
C7_Witness ==
  /\ C7_Dashboard(1)
  /\ Cardinality(C7_Completed) = 2
  /\ Cardinality(C7_SoldCars) = 1
  /\ \A b \in C7_Completed : bookings[b].carId \in C7_SoldCars
  /\ res[1].data.testDrives.conversionRate = 5000

\* C10: for an admin, getAdminTestDrives returns exactly the bookings with
\* (status empty or equal to the booking's) and (search empty or a
\* case-insensitive substring of the car's make or model or of the user's name
\* or email), and the where objects of both variants select the same bookings.
C10_Within(needle, hay) ==
  \E i \in 0..(Len(hay) - Len(needle)) :
    \A j \in 1..Len(needle) : Lower(hay[i + j]) = Lower(needle[j])

C10_Selected(search, status) ==
  {b \in DOMAIN bookings :
     /\ status = "" \/ bookings[b].status = status
     /\ \/ search = <<>>
        \/ C10_Within(search, cars[bookings[b].carId].make)
        \/ C10_Within(search, cars[bookings[b].carId].model)
        \/ C10_Within(search, UserById(bookings[b].userId).name)
        \/ C10_Within(search, UserById(bookings[b].userId).email)}

C10_Ids(data) == {data[i].id : i \in DOMAIN data}

C10_TestDrives(p) ==
  Returned(p) /\ call[p].op = "getAdminTestDrives" /\ res[p].success

C10_SearchFilter ==
  \A p \in Procs :
    C10_TestDrives(p) =>
      /\ C10_Ids(res[p].data) = C10_Selected(call[p].search, call[p].status)
      /\ Len(res[p].data) = Cardinality(C10_Selected(call[p].search, call[p].status))
      /\ C10_Ids(FindTestDrives(WhereAdmin(call[p].search, call[p].status)))
           = C10_Ids(FindTestDrives(WhereLegacy(call[p].search, call[p].status)))

\* a search and a status together select one booking and leave one out
C10_Witness ==
  /\ C10_TestDrives(1)
  /\ call[1].search = <<"T">> /\ call[1].status = "COMPLETED"
  /\ C10_Ids(res[1].data) = {"b1"}
  /\ bookings["b2"].status = "PENDING"

GetCarsReturned(p) == Returned(p) /\ call[p].op = "getCars" /\ res[p].success

\* C6: every car getCars returns has minPrice <= price <= maxPrice, for every
\* numeric minPrice and maxPrice, 0 included.
C6_PriceWithinRange ==
  \A p \in Procs :
    GetCarsReturned(p) =>
      \A i \in DOMAIN res[p].data :
        /\ call[p].minPrice <= res[p].data[i].price
        /\ res[p].data[i].price <= call[p].maxPrice

\* C8: getCars returns the items at positions (page-1)*limit+1 .. page*limit
\* of the matching cars in the requested order, total is the number of matching
\* cars and pages is ceil(total / limit).
C8_Matching(a) == {cars[id] : id \in {i \in DOMAIN cars : EvalWhere(WhereCars(a), cars[i])}}

C8_InOrder(sortBy, a, b) ==
  CASE sortBy = "priceAsc" -> a.price <= b.price
    [] sortBy = "priceDesc" -> a.price >= b.price
    [] OTHER -> a.createdAt >= b.createdAt

C8_Page(p) ==
  LET a == call[p]
      M == C8_Matching(a)
      n == Cardinality(M)
      first == (a.page - 1) * a.limit + 1
      last == IF a.page * a.limit < n THEN a.page * a.limit ELSE n
      data == res[p].data
  IN /\ res[p].pagination.total = n
     /\ res[p].pagination.pages * a.limit >= n
     /\ (res[p].pagination.pages - 1) * a.limit < n \/ res[p].pagination.pages = 0
     /\ \E full \in [1..n -> M] :
          /\ \A i, j \in 1..n : i < j =>
                full[i] # full[j] /\ C8_InOrder(a.sortBy, full[i], full[j])
          /\ Len(data) = (IF last >= first THEN last - first + 1 ELSE 0)
          /\ \A i \in 1..Len(data) : data[i].id = full[first + i - 1].id

C8_Pagination == \A p \in Procs : GetCarsReturned(p) => C8_Page(p)

\* page 2 of three matching cars, two to a page, holds the third car alone
C8_Witness ==
  /\ GetCarsReturned(1)
  /\ call[1].page = 2 /\ call[1].limit = 2 /\ call[1].sortBy = "priceDesc"
  /\ res[1].pagination.total = 3 /\ res[1].pagination.pages = 2
  /\ Len(res[1].data) = 1

\* the numerator of the conversion rate as the running variant computes it from
\* the two tables
C11_Numerator ==
  IF variant = "admin.js" THEN SoldAfterTD(Rows(cars), Rows(bookings))
  ELSE SoldAfterTestDrive(Rows(cars), Rows(bookings))

\* C11: with cars of distinct ids, the number of SOLD cars counted in the
\* numerator of the conversion rate never exceeds the number of COMPLETED
\* bookings, so the conversionRate getDashboardData returns lies between 0 and
\* 100 inclusive (0 and 10000 in hundredths).
C11_RateWithinPercent ==
  \A p \in Procs :
    C7_Dashboard(p) =>
      /\ C11_Numerator <= Cardinality(C7_Completed)
      /\ 0 <= res[p].data.testDrives.conversionRate
      /\ res[p].data.testDrives.conversionRate <= 10000

\* two SOLD cars, each the car of one of two COMPLETED bookings: the numerator
\* meets the denominator and the rate is 100.00
C11_Witness ==
  /\ C7_Dashboard(1)
  /\ \A c \in DOMAIN cars : cars[c].status = "SOLD"
  /\ Cardinality(C7_Completed) = 2
  /\ C11_Numerator = 2
  /\ res[1].data.testDrives.conversionRate = 10000

====
